---- MODULE Spec2Model ----
(***************************************************************************)
(* A model of src/main.py: the command line tool that scans a folder for   *)
(* JPEG/PNG files above 19 MiB and re-encodes each one to fit a target.    *)
(*                                                                         *)
(* Sizes are held in bytes.  The code works with "MB" floats obtained by   *)
(* dividing a byte count by 1024*1024 (lines 28 and 61); a division by a   *)
(* power of two is exact in binary floating point, so a comparison         *)
(* x_mb <= t of the code is the comparison  x_bytes <= t * MiB  here.      *)
(*                                                                         *)
(* A path is the number of "_compressed" suffixes appended to the stem of  *)
(* one image name: path 0 is a.jpg, path 1 is a_compressed.jpg, and so on. *)
(* The image codec is opaque: what a decode yields (the encoded size at    *)
(* each quality, or an exception) is drawn when the file is opened.        *)
(***************************************************************************)
EXTENDS Integers, Sequences, FiniteSets, TLC

\* ----------------------------------------------------------------- constants
MiB == 1048576
SkipMB == 19
MaxQuality == 100

\* -------------------------------------------------------------------- bounds
\* Number of paths that may hold a file before the first run.
NFiles == 2
\* --min-quality ranges over MaxQuality - QSpan .. MaxQuality + 1.
QSpan == 2
\* In the search specification min_q and max_q range over -QRange .. QRange.
QRange == 4

\* ------------------------------------------------------------------- domains
\* Every run can create one more level of _compressed siblings.
AllPaths == 0 .. (NFiles + 1)
InitPaths == 0 .. (NFiles - 1)

Absent == [fmt |-> "absent", size |-> 0, tool |-> FALSE, q |-> 0]
\* What a failed write can leave behind: the first s bytes, not an image.
Partial(s) == [fmt |-> "BAD", size |-> s, tool |-> TRUE, q |-> 0]
\* The lengths a failed write is cut at: nothing, and just above 19 MiB.
PartialSizes == { 0, SkipMB * MiB + 1 }
Orig(f, s) == [fmt |-> f, size |-> s, tool |-> FALSE, q |-> 0]

\* Files found in the folder before the first run.
InitContents ==
    { Absent, Orig("JPEG", SkipMB * MiB), Orig("JPEG", SkipMB * MiB + 1),
      Orig("PNG", SkipMB * MiB + 1), Orig("BMP", SkipMB * MiB + 1) }

\* Sizes an encode can produce: exactly 19 MiB, and 21 MiB.
EncSizes == { SkipMB * MiB, 21 * MiB }
\* --target-mb values (whole MB): 19 lets only the first size fit, 22 both.
Targets == { SkipMB, 22 }
MinQualities == (MaxQuality - QSpan) .. (MaxQuality + 1)

ArgSet == [target_mb : Targets, min_quality : MinQualities, overwrite : BOOLEAN]

None == << >>
Some(x) == << x >>

VARIABLES
    args,       \* the parsed command line
    fs,         \* path -> content of the file there (Absent when none)
    rerun,      \* TRUE once the command has been run a second time
    pc,         \* position in cli / process_one / compress_jpeg
    files,      \* cli: the scanned list
    idx,        \* cli: index of the file of the current loop iteration
    completed,  \* the progress bar's count
    out,        \* the status lines printed by this run
    exitcode,   \* None while running, Some(status) after exit
    path,       \* process_one: the file handled
    orig,       \* process_one: orig_mb (bytes)
    fmt,        \* process_one: img.format
    outp,       \* process_one: out
    result,     \* process_one's return value, None until known
    opened,     \* whether process_one decoded the file
    nenc,       \* encodes made by the current process_one
    wrote,      \* paths the current process_one wrote to (attempted)
    max_q,      \* compress_jpeg: max_q
    lo,         \* compress_jpeg: lo
    hi,         \* compress_jpeg: hi
    best,       \* compress_jpeg: None or <<best_bytes, best_q>>
    jsize,      \* the codec: quality -> size of the JPEG encoding
    probes,     \* compress_jpeg: the qualities encoded so far
    ret,        \* compress_jpeg's return value, None until returned
    fs_scan,    \* fs as it was when the run scanned the folder
    fs_pre,     \* fs as it was when the current process_one began
    root_ok,    \* cli: what root.is_dir() answered
    raised,     \* process_one: an exception reached the except clause
    prev_ok     \* the paths the previous run labelled with success

vars == << args, fs, rerun, pc, files, idx, completed, out, exitcode, path, orig,
           fmt, outp, result, opened, nenc, wrote, max_q, lo, hi, best, jsize,
           probes, ret, fs_scan, fs_pre, root_ok, raised, prev_ok >>

cliVars == << files, idx, completed, out, exitcode, root_ok >>
poVars == << path, orig, fmt, outp, result, opened, nenc, wrote, fs_pre, raised >>
cjVars == << max_q, lo, hi, best, jsize, probes, ret >>

\* ------------------------------------------------------------------- helpers
file_size_mb(f, p) == f[p].size

with_stem(p) == p + 1

\* process_one, line 90: the output path.
OutPath(p, overwrite) == IF overwrite THEN p ELSE with_stem(p)

\* Faulty variant: the 20 MB of the module docstring instead of the 19 of line 81.
ShouldSkipDoc(size) == size <= 20 * MiB
\* Faulty variant: a strict comparison.
ShouldSkipStrict(size) == size < SkipMB * MiB
\* process_one, line 81: orig_mb <= 19.
ShouldSkip(size) == size <= SkipMB * MiB

\* Faulty variant: the operands of the comparison exchanged.
FitsSwapped(size, target_mb) == target_mb * MiB <= size
\* Lines 62 and 75: size_mb <= target_mb.
Fits(size, target_mb) == size <= target_mb * MiB

\* Line 56: q = (lo + hi) // 2, a floor division.
Mid(l, h) == (l + h) \div 2

\* Faulty variant: every probe is recorded as the best, whether it fits or not.
BestAlways(b, fits, bytes, q) == << bytes, q >>
\* Lines 62-63: best_bytes, best_q after a probe.
Best(b, fits, bytes, q) == IF fits THEN << bytes, q >> ELSE b

\* The bytes of the JPEG encoding at quality q.
JpegBytes(sz, q) == [fmt |-> "JPEG", size |-> sz[q], tool |-> TRUE, q |-> q]
\* The bytes of the PNG encoding (compress_level 9).
PngBytes(s) == [fmt |-> "PNG", size |-> s, tool |-> TRUE, q |-> 9]

\* Faulty variant: no fallback to the second operand.
OrElseZero(a, b) == IF a = None THEN 0 ELSE a[1]
\* Line 97, Python's  a or b  on an optional number: None and 0 are falsy.
OrElse(a, b) == IF a = None \/ a[1] = 0 THEN b ELSE a[1]

Label(kind, q) == [kind |-> kind, q |-> q]

\* Faulty variant: the size of the failed file is lost.
ErrorResultZero(orig_mb) == Some(<< Label("error", 0), 0 >>)
\* process_one, line 108: the result of a file whose handling raised.
ErrorResult(orig_mb) == Some(<< Label("error", 0), orig_mb >>)

\* Faulty variant: the search steps over the quality next to the probe.
NextLoSkip(q) == q + 2
\* Faulty variant: the lower bound stays on the probe.
NextLoStuck(q) == q
\* Line 64: lo = q + 1.
NextLo(q) == q + 1
\* Line 66: hi = q - 1.
NextHi(q) == q - 1

\* process_one, lines 95-96.
JpegLabel(ok, q, min_quality) ==
    IF ok THEN Label("JPEG ok", q[1]) ELSE Label("JPEG still big", min_quality)

\* Faulty variant: the two labels exchanged.
PngLabelInverted(ok) == IF ok THEN Label("PNG still big", 0) ELSE Label("PNG ok", 0)
\* process_one, line 101.
PngLabel(ok) == IF ok THEN Label("PNG ok", 0) ELSE Label("PNG still big", 0)

RECURSIVE Perms(_)
Perms(S) ==
    IF S = {} THEN { << >> }
    ELSE UNION { { << x >> \o t : t \in Perms(S \ {x}) } : x \in S }

\* Lines 128-129, root.rglob: the regular image files, in any order.
Scan(f) == Perms({ p \in AllPaths : f[p] # Absent })

\* What a write of n bytes that raises can leave at the output path: the
\* file as it was (the open failed) or a proper prefix of the bytes.
FailedWrite(f, p, n) ==
    { f } \cup { [f EXCEPT ![p] = Partial(s)] : s \in { t \in PartialSizes : t < n } }

\* -------------------------------------------------------------------- state
PoReset ==
    /\ path' = 0 /\ orig' = 0 /\ fmt' = "" /\ outp' = 0 /\ result' = None
    /\ opened' = FALSE /\ nenc' = 0 /\ wrote' = {} /\ fs_pre' = fs'
    /\ raised' = FALSE

CjReset ==
    /\ max_q' = 0 /\ lo' = 0 /\ hi' = 0 /\ best' = None /\ jsize' = << >>
    /\ probes' = << >> /\ ret' = None

Init ==
    /\ args \in ArgSet
    /\ fs \in [AllPaths -> InitContents]
    /\ \A p \in AllPaths \ InitPaths : fs[p] = Absent
    /\ rerun = FALSE
    /\ pc = "start"
    /\ files = << >> /\ idx = 1 /\ completed = 0 /\ out = << >> /\ exitcode = None
    /\ root_ok = FALSE /\ raised = FALSE
    /\ path = 0 /\ orig = 0 /\ fmt = "" /\ outp = 0 /\ result = None
    /\ opened = FALSE /\ nenc = 0 /\ wrote = {} /\ fs_pre = fs
    /\ max_q = 0 /\ lo = 0 /\ hi = 0 /\ best = None /\ jsize = << >>
    /\ probes = << >> /\ ret = None
    /\ fs_scan = fs
    /\ prev_ok = {}

\* ------------------------------------------------------------------ actions
\* cli, lines 111-143: the folder check and the scan.
CliStart ==
    /\ pc = "start"
    /\ \E is_dir \in BOOLEAN :
        /\ root_ok' = is_dir
        /\ IF ~is_dir
           THEN /\ exitcode' = Some(1)
                /\ pc' = "exit"
                /\ UNCHANGED << files, fs_scan >>
           ELSE /\ files' \in Scan(fs)
                /\ fs_scan' = fs
                /\ pc' = "loop"
                /\ UNCHANGED exitcode
    /\ UNCHANGED << args, fs, rerun, idx, completed, out, prev_ok >>
    /\ UNCHANGED poVars
    /\ UNCHANGED cjVars

\* process_one, lines 78-82: the size gate.
Stat ==
    /\ pc = "loop"
    /\ idx <= Len(files)
    /\ LET p == files[idx]
           sz == file_size_mb(fs, p)
       IN  /\ path' = p
           /\ orig' = sz
           /\ fs_pre' = fs
           /\ IF ShouldSkip(sz)
              THEN /\ result' = Some(<< Label("skip", 0), sz >>)
                   /\ pc' = "print"
              ELSE /\ result' = None
                   /\ pc' = "open"
    /\ UNCHANGED << args, fs, rerun, fs_scan, prev_ok >>
    /\ UNCHANGED cliVars
    /\ UNCHANGED << fmt, outp, opened, nenc, wrote, raised >>
    /\ UNCHANGED cjVars

\* process_one, lines 84-94 and 104-108: decode, choose the output path, dispatch.
Open ==
    /\ pc = "open"
    /\ opened' = TRUE
    /\ \E raises \in BOOLEAN :
        IF raises \/ fs[path].fmt = "BAD"
        THEN /\ result' = ErrorResult(orig)
             /\ raised' = TRUE
             /\ pc' = "print"
             /\ UNCHANGED << fmt, outp >>
             /\ UNCHANGED cjVars
        ELSE /\ fmt' = fs[path].fmt
             /\ outp' = OutPath(path, args.overwrite)
             /\ UNCHANGED raised
             /\ IF fmt' = "JPEG"
                THEN /\ max_q' = MaxQuality
                     /\ lo' = args.min_quality
                     /\ hi' = MaxQuality
                     /\ best' = None
                     /\ jsize' \in [args.min_quality .. MaxQuality -> EncSizes]
                     /\ probes' = << >>
                     /\ ret' = None
                     /\ pc' = "jpeg_loop"
                     /\ UNCHANGED result
                ELSE IF fmt' = "PNG"
                THEN /\ pc' = "png"
                     /\ UNCHANGED result
                     /\ UNCHANGED cjVars
                ELSE /\ result' = Some(<< Label(fmt' \o " unsupported", 0), orig >>)
                     /\ pc' = "print"
                     /\ UNCHANGED cjVars
    /\ UNCHANGED << args, fs, rerun, fs_scan, prev_ok >>
    /\ UNCHANGED cliVars
    /\ UNCHANGED << path, orig, nenc, wrote, fs_pre >>

\* compress_jpeg, lines 55-66: one iteration of the search loop.
JpegProbe ==
    /\ pc = "jpeg_loop"
    /\ lo <= hi
    /\ LET q == Mid(lo, hi) IN
       \E raises \in BOOLEAN :
        IF raises
        THEN /\ result' = ErrorResult(orig)
             /\ raised' = TRUE
             /\ pc' = "print"
             /\ UNCHANGED << lo, hi, best, probes, nenc >>
        ELSE /\ probes' = Append(probes, q)
             /\ nenc' = nenc + 1
             /\ best' = Best(best, Fits(jsize[q], args.target_mb), JpegBytes(jsize, q), q)
             /\ IF Fits(jsize[q], args.target_mb)
                THEN /\ lo' = NextLo(q)
                     /\ UNCHANGED hi
                ELSE /\ hi' = NextHi(q)
                     /\ UNCHANGED lo
             /\ UNCHANGED << result, pc, raised >>
    /\ UNCHANGED << args, fs, rerun, fs_scan, prev_ok >>
    /\ UNCHANGED cliVars
    /\ UNCHANGED << path, orig, fmt, outp, opened, wrote, fs_pre >>
    /\ UNCHANGED << max_q, jsize, ret >>

\* compress_jpeg, lines 67-70: the end of the search, the write and the return.
JpegReturn ==
    /\ pc = "jpeg_loop"
    /\ ~(lo <= hi)
    /\ IF best = None
       THEN /\ ret' = Some(<< FALSE, None, None >>)
            /\ pc' = "jpeg_ret"
            /\ UNCHANGED << fs, wrote, result, raised >>
       ELSE /\ wrote' = wrote \cup {outp}
            /\ \E raises \in BOOLEAN :
                IF raises
                THEN /\ fs' \in FailedWrite(fs, outp, best[1].size)
                     /\ result' = ErrorResult(orig)
                     /\ raised' = TRUE
                     /\ pc' = "print"
                     /\ UNCHANGED ret
                ELSE /\ fs' = [fs EXCEPT ![outp] = best[1]]
                     /\ ret' = Some(<< TRUE, Some(best[2]),
                                       Some(file_size_mb(fs', outp)) >>)
                     /\ pc' = "jpeg_ret"
                     /\ UNCHANGED << result, raised >>
    /\ UNCHANGED << args, rerun, fs_scan, prev_ok >>
    /\ UNCHANGED cliVars
    /\ UNCHANGED << path, orig, fmt, outp, opened, nenc, fs_pre >>
    /\ UNCHANGED << max_q, lo, hi, best, jsize, probes >>

\* process_one, lines 93-97: the label and the size reported for a JPEG.
JpegResult ==
    /\ pc = "jpeg_ret"
    /\ LET ok == ret[1][1]
           q == ret[1][2]
           new_mb == ret[1][3]
       IN  result' = Some(<< JpegLabel(ok, q, args.min_quality),
                             OrElse(new_mb, orig) >>)
    /\ pc' = "print"
    /\ UNCHANGED << args, fs, rerun, fs_scan, prev_ok >>
    /\ UNCHANGED cliVars
    /\ UNCHANGED << path, orig, fmt, outp, opened, nenc, wrote, fs_pre, raised >>
    /\ UNCHANGED cjVars

\* compress_png, lines 72-75, and process_one, lines 99-102.
CompressPng ==
    /\ pc = "png"
    /\ nenc' = nenc + 1
    /\ wrote' = wrote \cup {outp}
    /\ \E raises \in BOOLEAN, s \in EncSizes :
        IF raises
        THEN /\ fs' \in FailedWrite(fs, outp, s)
             /\ result' = ErrorResult(orig)
             /\ raised' = TRUE
        ELSE /\ fs' = [fs EXCEPT ![outp] = PngBytes(s)]
             /\ LET new_mb == file_size_mb(fs', outp)
                IN  result' = Some(<< PngLabel(Fits(new_mb, args.target_mb)), new_mb >>)
             /\ UNCHANGED raised
    /\ pc' = "print"
    /\ UNCHANGED << args, rerun, fs_scan, prev_ok >>
    /\ UNCHANGED cliVars
    /\ UNCHANGED << path, orig, fmt, outp, opened, fs_pre >>
    /\ UNCHANGED cjVars

\* cli, line 146: the status line of the file.
PrintStatus ==
    /\ pc = "print"
    /\ out' = Append(out, << files[idx], result[1][1], result[1][2] >>)
    /\ pc' = "advance"
    /\ UNCHANGED << args, fs, rerun, fs_scan, prev_ok >>
    /\ UNCHANGED << files, idx, completed, exitcode, root_ok >>
    /\ UNCHANGED poVars
    /\ UNCHANGED cjVars

\* cli, line 147 and the loop's step to the next file.
Advance ==
    /\ pc = "advance"
    /\ completed' = completed + 1
    /\ idx' = idx + 1
    /\ pc' = "loop"
    /\ UNCHANGED fs
    /\ PoReset
    /\ CjReset
    /\ UNCHANGED << args, rerun, fs_scan, prev_ok >>
    /\ UNCHANGED << files, out, exitcode, root_ok >>

\* cli, line 149: the loop is over, the process exits with status 0.
CliEnd ==
    /\ pc = "loop"
    /\ idx > Len(files)
    /\ exitcode' = Some(0)
    /\ pc' = "exit"
    /\ UNCHANGED << args, fs, rerun, fs_scan, prev_ok >>
    /\ UNCHANGED << files, idx, completed, out, root_ok >>
    /\ UNCHANGED poVars
    /\ UNCHANGED cjVars

IsSuccess(label) == label.kind \in { "JPEG ok", "PNG ok" }

\* Lines 151-152: the same command line is run once more over the same folder.
Rerun ==
    /\ pc = "exit"
    /\ exitcode = Some(0)
    /\ ~rerun
    /\ rerun' = TRUE
    /\ prev_ok' = { out[i][1] : i \in { j \in 1 .. Len(out) : IsSuccess(out[j][2]) } }
    /\ files' = << >> /\ idx' = 1 /\ completed' = 0 /\ out' = << >>
    /\ exitcode' = None
    /\ root_ok' = FALSE
    /\ pc' = "start"
    /\ UNCHANGED << args, fs, fs_scan >>
    /\ UNCHANGED poVars
    /\ UNCHANGED cjVars

Next ==
    \/ CliStart
    \/ Stat
    \/ Open
    \/ JpegProbe
    \/ JpegReturn
    \/ JpegResult
    \/ CompressPng
    \/ PrintStatus
    \/ Advance
    \/ CliEnd

\* One run of the command over a folder.
Spec == Init /\ [][Next]_vars

\* ------------------------------------------------------------- a second run
\* The command is run with --overwrite and then run again.  The width of the
\* quality search plays no part in a re-run: --min-quality is 99 or 100.
InitRerun ==
    /\ Init
    /\ args.overwrite
    /\ args.min_quality \in { MaxQuality - 1, MaxQuality }

NextRerun ==
    \/ CliStart
    \/ Stat
    \/ Open
    \/ JpegProbe
    \/ JpegReturn
    \/ JpegResult
    \/ CompressPng
    \/ PrintStatus
    \/ Advance
    \/ CliEnd
    \/ Rerun

SpecRerun == InitRerun /\ [][NextRerun]_vars

\* ----------------------------------------------------- compress_jpeg alone
\* compress_jpeg called on one decoded JPEG with any min_q and max_q.
SearchQualities == (0 - QRange) .. QRange

InitSearch ==
    /\ args \in [target_mb : Targets, min_quality : SearchQualities, overwrite : {FALSE}]
    /\ fs = [p \in AllPaths |-> IF p = 0 THEN Orig("JPEG", SkipMB * MiB + 1) ELSE Absent]
    /\ rerun = FALSE
    /\ pc = "jpeg_loop"
    /\ files = << 0 >> /\ idx = 1 /\ completed = 0 /\ out = << >> /\ exitcode = None
    /\ root_ok = TRUE /\ raised = FALSE
    /\ path = 0 /\ orig = file_size_mb(fs, 0) /\ fmt = "JPEG"
    /\ outp = OutPath(0, args.overwrite) /\ result = None
    /\ opened = TRUE /\ nenc = 0 /\ wrote = {} /\ fs_pre = fs
    /\ max_q \in SearchQualities
    /\ lo = args.min_quality /\ hi = max_q /\ best = None
    /\ jsize \in [args.min_quality .. max_q -> EncSizes]
    /\ probes = << >> /\ ret = None
    /\ fs_scan = fs
    /\ prev_ok = {}

NextSearch ==
    \/ JpegProbe
    \/ JpegReturn

\* The loop is sequential code: it keeps running until it returns or raises.
SpecSearch == InitSearch /\ [][NextSearch]_vars /\ WF_vars(NextSearch)

\* ------------------------------------------------------------------- claims
\* C1: whenever compress_jpeg has returned success, the chosen quality lies
\* in [min_quality, 100], the file at the output path holds exactly the
\* encoding at that quality, its size is at most the target, and the size
\* reported with the success label is that size.
C1_JpegSuccessFits ==
    (ret # None /\ ret[1][1]) =>
        LET q == ret[1][2][1]
            new_mb == ret[1][3][1]
        IN  /\ q \in args.min_quality .. MaxQuality
            /\ fs[outp] = [fmt |-> "JPEG", size |-> jsize[q], tool |-> TRUE, q |-> q]
            /\ new_mb = jsize[q]
            /\ new_mb <= args.target_mb * MiB
            /\ (result # None =>
                    /\ result[1][1] = [kind |-> "JPEG ok", q |-> q]
                    /\ result[1][2] = new_mb)

C1_Witness ==
    /\ pc = "print"
    /\ result[1][1].kind = "JPEG ok"
    /\ result[1][1].q < MaxQuality
    /\ fs[outp].tool

\* The qualities of the range whose encoding meets the target (a brute-force scan).
FitSet == { q \in args.min_quality .. max_q : jsize[q] <= args.target_mb * MiB }
MaxOf(S) == CHOOSE x \in S : \A y \in S : y <= x
\* A higher quality never encodes to fewer bytes.
Monotone == \A a, b \in DOMAIN jsize : a <= b => jsize[a] <= jsize[b]

\* C2 as stated: for every function from quality to size, a successful
\* search returns the highest quality of [min_q, max_q] that meets the target.
C2_MaxForEverySizeFunction ==
    (ret # None /\ ret[1][1]) =>
        (FitSet # {} /\ ret[1][2][1] = MaxOf(FitSet))

\* C2 amended: when the encoded size does not decrease as the quality rises,
\* a successful search returns the highest quality of [min_q, max_q] that
\* meets the target.
C2_MaxWhenMonotone ==
    (ret # None /\ ret[1][1] /\ Monotone) =>
        (FitSet # {} /\ ret[1][2][1] = MaxOf(FitSet))

C2_Witness ==
    /\ ret # None /\ ret[1][1] /\ Monotone
    /\ Cardinality(FitSet) >= 2
    /\ FitSet # DOMAIN jsize
    /\ Len(probes) >= 3
    /\ ret[1][2][1] = MaxOf(FitSet)

C5_ScannedFilesUnchanged ==
    (root_ok /\ ~args.overwrite) =>
        \A i \in 1 .. Len(files) : fs[files[i]] = fs_scan[files[i]]

\* What the code does guarantee without --overwrite: handling a file writes
\* only to that file's own _compressed sibling and leaves the file itself as
\* it was; a path whose bytes differ from those at the scan is the
\* _compressed sibling of a scanned file handled so far.
C5_WritesOnlyToSibling ==
    (root_ok /\ ~args.overwrite) =>
        /\ wrote \subseteq { path + 1 }
        /\ \A p \in AllPaths : fs[p] # fs_pre[p] => p = path + 1
        /\ \A p \in AllPaths : fs[p] # fs_scan[p] =>
                \E i \in 1 .. Len(files) : i <= idx /\ files[i] + 1 = p

\* C6: when the search ends and no probed quality met the target, nothing
\* was written (the file system is as it was when the file was taken up, in
\* either mode), and the file is reported with the failure label carrying
\* min_quality, not as an error.
C6_NoWriteOnFailure ==
    (fmt = "JPEG" /\ ret # None
        /\ \A i \in 1 .. Len(probes) : jsize[probes[i]] > args.target_mb * MiB) =>
        /\ fs = fs_pre
        /\ wrote = {}
        /\ ~raised
        /\ (result # None =>
                result[1][1] = [kind |-> "JPEG still big", q |-> args.min_quality])

C6_Witness ==
    /\ pc = "print" /\ fmt = "JPEG" /\ ret # None
    /\ args.overwrite
    /\ Len(probes) >= 2
    /\ \A i \in 1 .. Len(probes) : jsize[probes[i]] > args.target_mb * MiB
    /\ result[1][1].kind = "JPEG still big"
    /\ fs[path] = fs_scan[path]

\* C7: every file of the scanned list is handled once, in list order, with
\* one status line each; a file whose handling raised is reported as an
\* error with its original size; the progress count is advanced once per
\* file, after the file's result is known and printed; the run exits with 0.
C7_EveryFileReported ==
    root_ok =>
        /\ Len(out) = (IF pc = "advance" THEN idx ELSE idx - 1)
        /\ \A i \in 1 .. Len(out) : out[i][1] = files[i]
        /\ completed = idx - 1
        /\ (pc = "advance" =>
                /\ result # None
                /\ out[idx] = << files[idx], result[1][1], result[1][2] >>)
        /\ (raised => result = << << [kind |-> "error", q |-> 0], fs_pre[path].size >> >>)
        /\ (pc = "exit" =>
                /\ exitcode = << 0 >>
                /\ Len(out) = Len(files)
                /\ completed = Len(files))

C7_Witness ==
    /\ pc = "exit" /\ root_ok
    /\ Len(files) >= 2
    /\ out[1][2].kind = "error"
    /\ out[2][2].kind \in { "JPEG ok", "PNG ok" }
    /\ completed = 2

\* C8: a PNG above the skip threshold is encoded exactly once and the result
\* is written to the output path whether or not it fits; the label is the
\* success label exactly when the written size is at most the target; with
\* --overwrite the original is replaced also when the label is "still big".
C8_PngSingleEncode ==
    (fmt = "PNG" /\ result # None) =>
        /\ nenc = 1
        /\ wrote = { outp }
        /\ outp = (IF args.overwrite THEN path ELSE path + 1)
        /\ (~raised =>
                /\ fs[outp].fmt = "PNG" /\ fs[outp].tool
                /\ result[1][2] = fs[outp].size
                /\ result[1][1].kind =
                       (IF fs[outp].size <= args.target_mb * MiB
                        THEN "PNG ok" ELSE "PNG still big")
                /\ (args.overwrite => fs[path] # fs_pre[path] /\ fs[path].tool))

C8_Witness ==
    /\ pc = "print" /\ fmt = "PNG" /\ ~raised
    /\ args.overwrite
    /\ result[1][1].kind = "PNG still big"
    /\ fs[path].tool /\ fs[path].fmt = "PNG"
    /\ fs[path].size > args.target_mb * MiB
    /\ ~fs_pre[path].tool

RECURSIVE CeilLog2(_)
CeilLog2(n) == IF n <= 1 THEN 0 ELSE 1 + CeilLog2((n + 1) \div 2)

ProbeBound ==
    IF args.min_quality > max_q THEN 0 ELSE CeilLog2(max_q - args.min_quality + 2)

C9_Safety ==
    /\ \A i \in 1 .. Len(probes) : probes[i] \in args.min_quality .. max_q
    /\ \A i, j \in 1 .. Len(probes) : i < j => probes[i] # probes[j]
    /\ Len(probes) <= ProbeBound
    /\ (pc = "jpeg_ret" => lo > hi)
    /\ (pc = "jpeg_ret" /\ args.min_quality > max_q =>
            probes = << >> /\ ret = << << FALSE, << >>, << >> >> >>)

\* C9: every probed quality lies in [min_q, max_q], none is probed twice,
\* the loop makes at most ceil(log2(max_q - min_q + 2)) probes (none when
\* min_q > max_q, which reports failure), it returns only with lo > hi,
\* hi - lo strictly decreases at every probe, and the search always ends.
C9_SearchTerminates ==
    /\ []C9_Safety
    /\ [][probes' # probes => hi' - lo' < hi - lo]_vars
    /\ <>(pc \in { "jpeg_ret", "print" })

C9_Witness ==
    /\ pc = "jpeg_ret"
    /\ Len(probes) = ProbeBound
    /\ Len(probes) >= 4
    /\ lo > hi

\* C10: under --overwrite with target-mb <= 19, every file labelled with
\* success has at most target <= 19 MiB afterwards, and a second run labels
\* each of them "skip" and leaves it as it was.  For any target, a file the
\* first run labelled with success is skipped by the second run exactly when
\* its size is at most 19 MiB: a larger one is taken up again.
C10_RerunSkipsSuccesses ==
    /\ (args.overwrite /\ args.target_mb <= SkipMB) =>
        /\ \A i \in 1 .. Len(out) :
                out[i][2].kind \in { "JPEG ok", "PNG ok" } =>
                    fs[out[i][1]].size <= args.target_mb * MiB
        /\ rerun => \A p \in prev_ok :
                /\ fs[p].size <= args.target_mb * MiB
                /\ (root_ok => fs[p] = fs_scan[p])
                /\ \A i \in 1 .. Len(out) : out[i][1] = p =>
                        /\ out[i][2] = [kind |-> "skip", q |-> 0]
                        /\ out[i][3] = fs[p].size
    /\ (rerun /\ root_ok) => \A p \in prev_ok : \A i \in 1 .. Len(out) :
            out[i][1] = p =>
                (out[i][2].kind = "skip" <=> fs_scan[p].size <= SkipMB * MiB)

C10_Witness ==
    /\ rerun /\ pc = "exit" /\ root_ok
    /\ args.target_mb <= SkipMB
    /\ \E i \in 1 .. Len(out) : out[i][1] \in prev_ok /\ out[i][2].kind = "skip"
    /\ \E i \in 1 .. Len(out) : out[i][2].kind # "skip"

\* A second run that takes up a file the first run labelled with success.
C10_SuccessTakenUpAgain ==
    /\ rerun /\ root_ok
    /\ args.target_mb > SkipMB
    /\ \E i \in 1 .. Len(out) : out[i][1] \in prev_ok /\ out[i][2].kind # "skip"

====
